---- MODULE Spec2Model ----
(***************************************************************************)
(* Model of the libretro image matching server (src/main.py).              *)
(*                                                                         *)
(* Strings are sequences of one-character strings, so that the regular     *)
(* expressions, str.replace, str.strip and the similarity scorers can be   *)
(* computed character by character.                                        *)
(***************************************************************************)
EXTENDS Integers, Sequences, FiniteSets, TLC

VARIABLES
  now,      \* int(time.time()), in seconds
  store,    \* InMemoryBackend._store: per cache key, the entry or none
  heap,     \* the objects: each request's game_mapping dict, the cached bytes
  req,      \* the requests: where each is in process_game_list, its locals
  calls,    \* the requests received so far
  raw, once, twice, scrubPc   \* scrub_game_name applied once and twice

vars == <<now, store, heap, req, calls, raw, once, twice, scrubPc>>

\* ------------------------------------------------------------------ bounds
\* Longest string over ScrubAlphabet that scrub_game_name is applied to.
MaxLen == 4
\* Concurrent requests.
NReq == 2
\* Steps of the clock.
MaxTicks == 2
\* Requests received in all.
MaxCalls == 3

\* ----------------------------------------------------------------- strings
Whitespace == {" ", "\t", "\n"}

\* \w of Python's re on str: letters, digits and the underscore.
WordChars ==
  {"a","b","c","d","e","f","g","h","i","j","k","l","m","n","o","p","q","r",
   "s","t","u","v","w","x","y","z",
   "A","B","C","D","E","F","G","H","I","J","K","L","M","N","O","P","Q","R",
   "S","T","U","V","W","X","Y","Z",
   "0","1","2","3","4","5","6","7","8","9","_"}

Min(S) == CHOOSE x \in S : \A y \in S : x <= y
Max(S) == CHOOSE x \in S : \A y \in S : x >= y

\* Smallest index >= from at which s holds c, or 0.
FirstIndex(s, c, from) ==
  LET idx == {i \in from..Len(s) : s[i] = c}
  IN IF idx = {} THEN 0 ELSE Min(idx)

\* str.strip(): leading and trailing whitespace removed.
Strip(s) ==
  LET keep == {i \in 1..Len(s) : s[i] \notin Whitespace}
  IN IF keep = {} THEN <<>> ELSE SubSeq(s, Min(keep), Max(keep))

\* str.replace(old, new): every non-overlapping occurrence, left to right.
RECURSIVE Replace(_, _, _)
Replace(s, old, new) ==
  IF Len(s) < Len(old) \/ Len(old) = 0 THEN s
  ELSE IF SubSeq(s, 1, Len(old)) = old
       THEN new \o Replace(SubSeq(s, Len(old) + 1, Len(s)), old, new)
       ELSE <<s[1]>> \o Replace(Tail(s), old, new)

\* str.startswith / str.endswith
StartsWith(s, p) == Len(s) >= Len(p) /\ SubSeq(s, 1, Len(p)) = p
EndsWith(s, p) ==
  Len(s) >= Len(p) /\ SubSeq(s, Len(s) - Len(p) + 1, Len(s)) = p

\* ------------------------------------------------------- scrub_game_name
\* common_renames, in the dict's iteration order.
common_renames ==
  << << <<"M","e","g","a","m","a","n">>,
        <<"M","e","g","a"," ","M","a","n">> >> >>

\* re.sub(r"\.\w+$", "", s): a dot followed by one or more word characters
\* up to the end of the string ($ also matches before one trailing newline).
StripExtension(s) ==
  LET ends == {Len(s)} \cup
              (IF Len(s) > 0 /\ s[Len(s)] = "\n" THEN {Len(s) - 1} ELSE {})
      m == {<<i, e>> \in (1..Len(s)) \X ends :
              /\ s[i] = "."
              /\ i < e
              /\ \A k \in (i + 1)..e : s[k] \in WordChars}
  IN IF m = {} THEN s
     ELSE LET i == Min({p[1] : p \in m})
              e == Max({p[2] : p \in {q \in m : q[1] = i}})
          IN SubSeq(s, 1, i - 1) \o SubSeq(s, e + 1, Len(s))

\* Start of the whitespace run that ends just before position j.
RECURSIVE WsRunStart(_, _)
WsRunStart(s, j) ==
  IF j > 1 /\ s[j - 1] \in Whitespace THEN WsRunStart(s, j - 1) ELSE j

\* A plausible slip: only the first group is removed (re.sub(..., count=1)).
RemoveFirstGroup(s, open, close) ==
  LET j == FirstIndex(s, open, 1)
      k == IF j = 0 THEN 0 ELSE FirstIndex(s, close, j + 1)
  IN IF k = 0 THEN s
     ELSE SubSeq(s, 1, WsRunStart(s, j) - 1) \o SubSeq(s, k + 1, Len(s))

\* re.sub(r"\s*\([^)]*\)", "", s) and re.sub(r"\s*\[[^\]]*\]", "", s):
\* every leftmost, non-overlapping match (optional whitespace, the opening
\* character, everything up to the first closing character) is removed.
RECURSIVE RemoveGroups(_, _, _)
RemoveGroups(s, open, close) ==
  LET j == FirstIndex(s, open, 1)
      k == IF j = 0 THEN 0 ELSE FirstIndex(s, close, j + 1)
  IN IF k = 0 THEN s
     ELSE SubSeq(s, 1, WsRunStart(s, j) - 1)
            \o RemoveGroups(SubSeq(s, k + 1, Len(s)), open, close)

\* for old_name, new_name in common_renames.items(): replace
RECURSIVE ApplyRenames(_, _)
ApplyRenames(s, renames) ==
  IF renames = <<>> THEN s
  ELSE ApplyRenames(Replace(s, renames[1][1], renames[1][2]), Tail(renames))

scrub_game_name(game_name) ==
  LET s1 == StripExtension(game_name)
      s2 == RemoveGroups(s1, "(", ")")
      s3 == RemoveGroups(s2, "[", "]")
      s4 == ApplyRenames(s3, common_renames)
  IN Strip(s4)

\* ------------------------------------------------------ thefuzz scorers
\* The scorers of thefuzz (fuzz.ratio, ...) as process.extractOne applies
\* them: both strings go through utils.full_process, the score is the
\* normalised Indel similarity of rapidfuzz, an exact fraction num/den on
\* the scale 0..100, and extractOne rounds the best one to an int.
AlphaNum == WordChars \ {"_"}

Upper == <<"A","B","C","D","E","F","G","H","I","J","K","L","M","N","O","P",
           "Q","R","S","T","U","V","W","X","Y","Z">>
LowerOf == <<"a","b","c","d","e","f","g","h","i","j","k","l","m","n","o","p",
             "q","r","s","t","u","v","w","x","y","z">>
CharOrder == <<"0","1","2","3","4","5","6","7","8","9">> \o LowerOf

IndexIn(seq, c) == CHOOSE i \in 1..Len(seq) : seq[i] = c

Lower(c) == IF \E i \in 1..Len(Upper) : Upper[i] = c
            THEN LowerOf[IndexIn(Upper, c)] ELSE c

\* utils.full_process: non-alphanumerics become spaces, lower case, strip.
full_process(s) ==
  Strip([i \in 1..Len(s) |->
           IF s[i] \in AlphaNum THEN Lower(s[i]) ELSE " "])

\* str.split(): the maximal runs of non-whitespace characters.
RECURSIVE Split(_)
Split(s) ==
  LET t == Strip(s)
      ws == {i \in 1..Len(t) : t[i] \in Whitespace}
  IN IF t = <<>> THEN <<>>
     ELSE IF ws = {} THEN <<t>>
     ELSE <<SubSeq(t, 1, Min(ws) - 1)>> \o Split(SubSeq(t, Min(ws), Len(t)))

\* " ".join(tokens)
RECURSIVE Join(_)
Join(tokens) ==
  IF tokens = <<>> THEN <<>>
  ELSE IF Len(tokens) = 1 THEN tokens[1]
  ELSE tokens[1] \o <<" ">> \o Join(Tail(tokens))

\* Python's order on str, for the characters full_process leaves.
RECURSIVE StrLess(_, _)
StrLess(a, b) ==
  IF b = <<>> THEN FALSE
  ELSE IF a = <<>> THEN TRUE
  ELSE IF a[1] = b[1] THEN StrLess(Tail(a), Tail(b))
  ELSE IndexIn(CharOrder, a[1]) < IndexIn(CharOrder, b[1])

RECURSIVE InsertSorted(_, _)
InsertSorted(t, sorted) ==
  IF sorted = <<>> THEN <<t>>
  ELSE IF StrLess(t, sorted[1]) THEN <<t>> \o sorted
  ELSE <<sorted[1]>> \o InsertSorted(t, Tail(sorted))

\* sorted(tokens)
RECURSIVE Sorted(_)
Sorted(tokens) ==
  IF tokens = <<>> THEN <<>>
  ELSE InsertSorted(tokens[1], Sorted(Tail(tokens)))

\* The tokens of a set, sorted: sorted(set(tokens)).
RECURSIVE Dedup(_)
Dedup(sorted) ==
  IF Len(sorted) < 2 THEN sorted
  ELSE IF sorted[1] = sorted[2] THEN Dedup(Tail(sorted))
  ELSE <<sorted[1]>> \o Dedup(Tail(sorted))

SeqToSet(seq) == {seq[i] : i \in 1..Len(seq)}

\* One row of the longest-common-subsequence table: prev and the result
\* hold the columns 0..Len(b) at the indices 1..Len(b)+1.
RECURSIVE LcsRow(_, _, _, _)
LcsRow(prev, a, b, acc) ==
  LET j == Len(acc)
  IN IF j > Len(b) THEN acc
     ELSE IF j = 0 THEN LcsRow(prev, a, b, <<0>>)
     ELSE LcsRow(prev, a, b,
            Append(acc, IF a = b[j] THEN prev[j] + 1
                        ELSE IF prev[j + 1] >= acc[j] THEN prev[j + 1]
                        ELSE acc[j]))

RECURSIVE LcsRows(_, _, _)
LcsRows(a, b, prev) ==
  IF a = <<>> THEN prev[Len(b) + 1]
  ELSE LcsRows(Tail(a), b, LcsRow(prev, a[1], b, <<>>))

LcsLen(a, b) == LcsRows(a, b, [j \in 1..(Len(b) + 1) |-> 0])

\* A score is the fraction num/den, 0 <= num/den <= 100.
Frac(n, d) == [num |-> n, den |-> d]
Zero == Frac(0, 1)
Hundred == Frac(100, 1)
FracLess(x, y) == x.num * y.den < y.num * x.den
FracMax(x, y) == IF FracLess(x, y) THEN y ELSE x

\* int(round(score)): to the nearest int, a tie to the even one.
RoundScore(x) ==
  LET q == x.num \div x.den
      r == x.num % x.den
  IN IF 2 * r < x.den THEN q
     ELSE IF 2 * r > x.den THEN q + 1
     ELSE IF q % 2 = 0 THEN q ELSE q + 1

\* rapidfuzz.fuzz.ratio: 100 * 2 * LCS / (len1 + len2).
Ratio(a, b) ==
  IF Len(a) + Len(b) = 0 THEN Hundred
  ELSE Frac(200 * LcsLen(a, b), Len(a) + Len(b))

\* fuzz.token_sort_ratio
TokenSortRatio(a, b) == Ratio(Join(Sorted(Split(a))), Join(Sorted(Split(b))))

\* 100 - 100 * dist / lensum
NormDistance(dist, lensum) ==
  IF lensum = 0 THEN Hundred ELSE Frac(100 * (lensum - dist), lensum)

\* token_set_ratio on the lengths of the joined intersection and of the two
\* joined differences, and the LCS of the differences.
TokenSetOfLengths(sectLen, abLen, baLen, lcs) ==
  LET sep == IF sectLen # 0 THEN 1 ELSE 0
      result == NormDistance(abLen + baLen - 2 * lcs,
                             2 * (sectLen + sep) + abLen + baLen)
  IN IF sectLen = 0 THEN result
     ELSE FracMax(result,
            FracMax(NormDistance(sep + abLen, 2 * sectLen + sep + abLen),
                    NormDistance(sep + baLen, 2 * sectLen + sep + baLen)))

\* ... on the joined intersection and the joined differences.
TokenSetOfParts(sect, jab, jba) ==
  IF sect # <<>> /\ (jab = <<>> \/ jba = <<>>) THEN Hundred
  ELSE TokenSetOfLengths(Len(sect), Len(jab), Len(jba), LcsLen(jab, jba))

\* ... on the sorted token sets of the two strings.
TokenSetOfTokens(ta, tb) ==
  IF ta = <<>> \/ tb = <<>> THEN Zero
  ELSE TokenSetOfParts(
         Join(SelectSeq(ta, LAMBDA t : t \in SeqToSet(tb))),
         Join(SelectSeq(ta, LAMBDA t : t \notin SeqToSet(tb))),
         Join(SelectSeq(tb, LAMBDA t : t \notin SeqToSet(ta))))

\* fuzz.token_set_ratio
TokenSetRatio(a, b) ==
  TokenSetOfTokens(Dedup(Sorted(Split(a))), Dedup(Sorted(Split(b))))

\* The best ratio of the needle with one of the windows.
BestRatio(short, windows) ==
  LET scores == {Ratio(short, windows[i]) : i \in 1..Len(windows)}
  IN CHOOSE x \in scores : \A y \in scores : ~FracLess(x, y)

\* The windows of the longer string the shorter one is aligned with: its
\* prefixes shorter than the needle, every window of the needle's length,
\* and its suffixes shorter than the needle.
PartialWindows(long, m, n) ==
  [i \in 1..(m - 1) |-> SubSeq(long, 1, i)]
    \o [i \in 1..(n - m + 1) |-> SubSeq(long, i, i + m - 1)]
    \o [i \in 1..(m - 1) |-> SubSeq(long, n - m + 1 + i, n)]

PartialImpl(short, long) ==
  BestRatio(short, PartialWindows(long, Len(short), Len(long)))

\* fuzz.partial_ratio
PartialRatio(a, b) ==
  IF Len(a) = 0 \/ Len(b) = 0
  THEN (IF Len(a) = Len(b) THEN Hundred ELSE Zero)
  ELSE IF Len(a) < Len(b) THEN PartialImpl(a, b)
  ELSE IF Len(b) < Len(a) THEN PartialImpl(b, a)
  ELSE FracMax(PartialImpl(a, b), PartialImpl(b, a))

\* fuzz.partial_token_sort_ratio
PartialTokenSortRatio(a, b) ==
  PartialRatio(Join(Sorted(Split(a))), Join(Sorted(Split(b))))

\* fuzzers (src/main.py), by position.
fuzzers == <<"ratio", "token_sort_ratio", "token_set_ratio",
             "partial_ratio", "partial_token_sort_ratio">>

\* The scorer at position f on two processed strings.
ScoreProcessed(f, a, b) ==
  CASE fuzzers[f] = "ratio" -> Ratio(a, b)
    [] fuzzers[f] = "token_sort_ratio" -> TokenSortRatio(a, b)
    [] fuzzers[f] = "token_set_ratio" -> TokenSetRatio(a, b)
    [] fuzzers[f] = "partial_ratio" -> PartialRatio(a, b)
    [] fuzzers[f] = "partial_token_sort_ratio" -> PartialTokenSortRatio(a, b)

\* scorer(full_process(query), full_process(choice))
FuzzScore(f, query, choice) ==
  ScoreProcessed(f, full_process(query), full_process(choice))

\* ------------------------------------------------------------ constants
MIN_MATCH_SCORE == 90

\* @cache(expire=60 * 60 * 24)
Expire == 60 * 60 * 24

\* rom_mapping, for the console codes the requests below use; a code that is
\* no key of the table is absent (rom_mapping.get(console, None) is None).
rom_mapping ==
  [c \in {"SFC", "SUPA", "GB", "GW"} |->
     CASE c = "SFC" -> "Nintendo - Super Nintendo Entertainment System"
       [] c = "SUPA" -> "Nintendo - Super Nintendo Entertainment System"
       [] c = "GB" -> "Nintendo - Game Boy"
       [] c = "GW" -> ""]

image_folders ==
  [t \in {"boxart", "snap", "title"} |->
     CASE t = "boxart" -> "Named_Boxarts"
       [] t = "snap" -> "Named_Snaps"
       [] t = "title" -> "Named_Titles"]

\* mapped_console = rom_mapping.get(console, None); "" when falsy.
MappedConsole(console) ==
  IF console \in DOMAIN rom_mapping THEN rom_mapping[console] ELSE ""

ImageFolder(image_type) ==
  IF image_type \in DOMAIN image_folders THEN image_folders[image_type] ELSE ""

\* f"https://thumbnails.libretro.com/{mapped_console}/{image_folder}/": the
\* parts of the string.
BaseUrl(console, image_type) ==
  <<"https://thumbnails.libretro.com/", MappedConsole(console), "/",
    ImageFolder(image_type), "/">>

\* f"{quoted_base_url}{image_name}": the quoted base and the file name.
ImageUrl(base_url, image_name) == [base |-> <<"quote", base_url>>, image |-> image_name]

\* ------------------------------------------------------------------ dict
\* A dict is the sequence of its <<key, value>> items in insertion order.
HasKey(d, k) == \E i \in 1..Len(d) : d[i][1] = k
KeyIndex(d, k) == CHOOSE i \in 1..Len(d) : d[i][1] = k
DictGet(d, k) == d[KeyIndex(d, k)][2]
DictSet(d, k, v) ==
  IF HasKey(d, k) THEN [d EXCEPT ![KeyIndex(d, k)] = <<k, v>>]
  ELSE Append(d, <<k, v>>)
DictDel(d, k) == SelectSeq(d, LAMBDA it : it[1] # k)
Keys(d) == [i \in 1..Len(d) |-> d[i][1]]

\* list.remove(x): the first occurrence of x is removed.
ListRemove(l, x) ==
  LET i == CHOOSE j \in 1..Len(l) : l[j] = x /\ \A h \in 1..(j - 1) : l[h] # x
  IN SubSeq(l, 1, i - 1) \o SubSeq(l, i + 1, Len(l))

RECURSIVE RemoveAll(_, _)
RemoveAll(l, xs) ==
  IF xs = <<>> THEN l ELSE RemoveAll(ListRemove(l, xs[1]), Tail(xs))

\* ------------------------------------------------ get_games_from_libretro
Png == <<".","p","n","g">>

\* The dict comprehension over soup.find_all("a"): a later link with the
\* same scrubbed text replaces the value of an earlier one.
RECURSIVE LinksToMapping(_, _)
LinksToMapping(links, acc) ==
  IF links = <<>> THEN acc
  ELSE LinksToMapping(Tail(links),
         IF EndsWith(links[1].href, Png)
         THEN DictSet(acc, scrub_game_name(links[1].text), links[1].href)
         ELSE acc)

\* The body of get_games_from_libretro on the response of requests.get.
FetchMapping(response) ==
  IF response.status_code # 200 THEN <<>>
  ELSE LinksToMapping(response.links, <<>>)

\* ------------------------------------------------------ process_game_list
\* body.decode("utf-8").split("\n")
RECURSIVE SplitLines(_)
SplitLines(body) ==
  LET nl == FirstIndex(body, "\n", 1)
  IN IF nl = 0 THEN <<body>>
     ELSE <<SubSeq(body, 1, nl - 1)>> \o SplitLines(SubSeq(body, nl + 1, Len(body)))

NeoGeoZip == <<"n","e","o","g","e","o",".","z","i","p">>

\* The three list comprehensions that filter the request's lines.
FilterGames(body) ==
  LET lines == SplitLines(body)
      g1 == SelectSeq([i \in 1..Len(lines) |-> Strip(lines[i])],
                      LAMBDA g : g # <<>>)
      g2 == SelectSeq(g1, LAMBDA g : ~StartsWith(g, <<".">>))
  IN SelectSeq(g2, LAMBDA g : g # NeoGeoZip)

\* A plausible slip: all_games = games, an alias of the list that
\* games.remove() then shortens.
AliasedAllGames(games, residual) == residual

\* all_games = games.copy(): the list as it was before the removals.
AllGames(games, residual) == games

\* A plausible slip: the matched key stays in game_mapping.
KeepKey(game_mapping, scrubbed_game) == game_mapping

\* del game_mapping[scrubbed_game]
Consume(game_mapping, scrubbed_game) == DictDel(game_mapping, scrubbed_game)

\* The exact pass over games[i..]: st holds matches, game_mapping,
\* exact_matches and (for the record) the key and file each match consumed.
RECURSIVE ExactPass(_, _, _, _)
ExactStep(games, i, base_url, st, scrubbed_game) ==
  IF /\ HasKey(st.game_mapping, scrubbed_game)
     /\ DictGet(st.game_mapping, scrubbed_game) # <<>>
  THEN ExactPass(games, i + 1, base_url,
         [matches |-> DictSet(st.matches, games[i],
              ImageUrl(base_url, DictGet(st.game_mapping, scrubbed_game))),
          game_mapping |-> Consume(st.game_mapping, scrubbed_game),
          exact_matches |-> Append(st.exact_matches, games[i]),
          consumed |-> Append(st.consumed,
              [game |-> games[i], key |-> scrubbed_game,
               file |-> DictGet(st.game_mapping, scrubbed_game)])])
  ELSE ExactPass(games, i + 1, base_url, st)

ExactPass(games, i, base_url, st) ==
  IF i > Len(games) THEN st
  ELSE ExactStep(games, i, base_url, st, scrub_game_name(games[i]))

\* The first choice with the highest score.
RECURSIVE BestIndex(_, _, _, _, _)
BestIndex(f, query, choices, i, best) ==
  IF i > Len(choices) THEN best
  ELSE BestIndex(f, query, choices, i + 1,
         IF FracLess(FuzzScore(f, query, choices[best]),
                     FuzzScore(f, query, choices[i]))
         THEN i ELSE best)

BestChoice(f, query, choices, b) ==
  [none |-> FALSE, choice |-> choices[b],
   score |-> RoundScore(FuzzScore(f, query, choices[b]))]

\* process.extractOne(query, choices, scorer=fuzzer): None for no choices,
\* else (choice, score) of the best choice.
extractOne(query, choices, f) ==
  IF choices = <<>> THEN [none |-> TRUE, choice |-> <<>>, score |-> 0]
  ELSE BestChoice(f, query, choices, BestIndex(f, query, choices, 2, 1))

RECURSIVE TryFuzzers(_, _, _, _)

\* A plausible slip: the loop has no break, every scorer is run and the
\* last one decides.
FuzzerStepNoBreak(f, scrubbed_game, game_names, tried, best_match) ==
  IF best_match.none
  THEN [raised |-> TRUE, best_match |-> best_match, tried |-> tried]
  ELSE IF f < Len(fuzzers)
  THEN TryFuzzers(f + 1, scrubbed_game, game_names, tried)
  ELSE [raised |-> FALSE, best_match |-> best_match, tried |-> tried]

\* The body of "for fuzzer in fuzzers" after extractOne: best_match[1] on
\* None raises TypeError; below the minimum: continue; else break.
FuzzerStep(f, scrubbed_game, game_names, tried, best_match) ==
  IF best_match.none
  THEN [raised |-> TRUE, best_match |-> best_match, tried |-> tried]
  ELSE IF best_match.score < MIN_MATCH_SCORE /\ f < Len(fuzzers)
  THEN TryFuzzers(f + 1, scrubbed_game, game_names, tried)
  ELSE [raised |-> FALSE, best_match |-> best_match, tried |-> tried]

\* The loop over fuzzers[f..]; tried lists the scorers run so far.
TryFuzzers(f, scrubbed_game, game_names, tried) ==
  FuzzerStep(f, scrubbed_game, game_names, Append(tried, f),
             extractOne(scrubbed_game, game_names, f))

\* What the fuzzy pass did for one name: the scorers it ran, the last
\* best_match, and whether it wrote matches[game].
LogEntry(game, t) ==
  [game |-> game, tried |-> t.tried, raised |-> t.raised,
   choice |-> t.best_match.choice, score |-> t.best_match.score,
   recorded |-> ~t.raised /\ t.best_match.score >= MIN_MATCH_SCORE]

\* The fuzzy pass over games[i..]; game_mapping is as the exact pass left it.
RECURSIVE FuzzyPass(_, _, _, _, _, _)
FuzzyStep(games, i, base_url, game_mapping, matches, log, t) ==
  IF t.raised
  THEN [raised |-> TRUE, matches |-> matches, log |-> log]
  ELSE IF t.best_match.score < MIN_MATCH_SCORE
  THEN FuzzyPass(games, i + 1, base_url, game_mapping, matches, log)
  ELSE FuzzyPass(games, i + 1, base_url, game_mapping,
         DictSet(matches, games[i],
           ImageUrl(base_url, DictGet(game_mapping, t.best_match.choice))),
         log)

FuzzyIteration(games, i, base_url, game_mapping, matches, log, t) ==
  FuzzyStep(games, i, base_url, game_mapping, matches,
            Append(log, LogEntry(games[i], t)), t)

FuzzyPass(games, i, base_url, game_mapping, matches, log) ==
  IF i > Len(games) THEN [raised |-> FALSE, matches |-> matches, log |-> log]
  ELSE FuzzyIteration(games, i, base_url, game_mapping, matches, log,
         TryFuzzers(1, scrub_game_name(games[i]), Keys(game_mapping), <<>>))

MatchingResult(games, residual, ex, fz) ==
  [raised |-> fz.raised, empty_index |-> FALSE, matches |-> fz.matches,
   all_games |-> AllGames(games, residual),
   game_mapping |-> ex.game_mapping, exact_matches |-> ex.exact_matches,
   consumed |-> ex.consumed, exact_result |-> ex.matches,
   residual |-> residual, log |-> fz.log]

\* for exact_match in exact_matches: games.remove(exact_match); fuzzy pass.
AfterRemoval(games, base_url, ex, residual) ==
  MatchingResult(games, residual, ex,
    FuzzyPass(residual, 1, base_url, ex.game_mapping, ex.matches, <<>>))

AfterExactPass(games, base_url, ex) ==
  AfterRemoval(games, base_url, ex, RemoveAll(games, ex.exact_matches))

\* process_game_list from "if len(game_mapping) == 0" to its return, on the
\* filtered games and the mapping get_games_from_libretro returned.
Matching(games, base_url, game_mapping) ==
  IF Len(game_mapping) = 0
  THEN [raised |-> FALSE, empty_index |-> TRUE, matches |-> <<>>,
        all_games |-> <<>>,
        game_mapping |-> game_mapping, exact_matches |-> <<>>,
        consumed |-> <<>>, exact_result |-> <<>>, residual |-> <<>>, log |-> <<>>]
  ELSE AfterExactPass(games, base_url,
         ExactPass(games, 1, base_url,
           [matches |-> <<>>, game_mapping |-> game_mapping,
            exact_matches |-> <<>>, consumed |-> <<>>]))

\* ------------------------------------------------------------- the cache
\* JsonCoder.encode: json.dumps of the dict, its items in insertion order.
JsonDumps(d) == [i \in 1..Len(d) |-> <<d[i][1], d[i][2]>>]

\* JsonCoder.decode: json.loads builds a new dict, item by item.
RECURSIVE JsonLoadsFrom(_, _)
JsonLoadsFrom(text, acc) ==
  IF text = <<>> THEN acc
  ELSE JsonLoadsFrom(Tail(text), DictSet(acc, text[1][1], text[1][2]))

JsonLoads(text) == JsonLoadsFrom(text, <<>>)

\* A plausible slip: the cache keeps the returned dict itself (a memo dict,
\* no coder), not an encoded copy of it.
StoredResultItself(result, encoded) == result

\* backend.set(cache_key, coder.encode(result), expire): the object the
\* backend keeps is the encoded bytes, never the dict the caller receives.
StoredObject(result, encoded) == encoded

\* A plausible slip: the entry's age is never looked at.
NeverExpired(entry, t) == FALSE

\* InMemoryBackend._get: an entry whose ttl_ts is before now is deleted.
Expired(entry, t) == entry.ttl_ts < t

\* -------------------------------------------------------------- requests
Reqs == 1..NReq

\* The cache keys in use: one base URL.
UrlList == <<BaseUrl("SFC", "boxart")>>
UrlIndex(u) == CHOOSE k \in 1..Len(UrlList) : UrlList[k] = u

DictObj(r) == <<"dict", r>>
BytesObj(u) == <<"bytes", UrlIndex(u)>>
ObjIds == {DictObj(r) : r \in Reqs} \cup {<<"bytes", k>> : k \in 1..Len(UrlList)}

\* No entry under a key.  Beside the object and ttl_ts the backend keeps, an
\* entry records what the fetch that filled it returned and when the call
\* that filled it was made.
NoEntry ==
  [present |-> FALSE, obj |-> <<"bytes", 0>>, ttl_ts |-> 0, fetched |-> <<>>,
   called_at |-> 0]

NoOut ==
  [raised |-> FALSE, empty_index |-> FALSE, matches |-> <<>>, all_games |-> <<>>,
   game_mapping |-> <<>>, exact_matches |-> <<>>, consumed |-> <<>>,
   exact_result |-> <<>>, residual |-> <<>>, log |-> <<>>]

\* A request: its place in process_game_list (idle; fetching: the fetch is
\* in the thread pool; done; raised: ended by an uncaught exception), its
\* locals, and for the record the time of its cache lookup, the entry it
\* found, whether it fetched and what get_games_from_libretro returned.
IdleReq ==
  [pc |-> "idle", body |-> <<>>, games |-> <<>>, base_url |-> <<>>,
   called_at |-> 0, saw |-> NoEntry,
   hit |-> FALSE, fetched |-> FALSE, ret |-> <<>>,
   out |-> NoOut]

\* r handles no request: none yet, or the last one's response is sent.
Free(r) == req[r].pc \in {"idle", "done", "raised"}

Known(console, image_type) ==
  MappedConsole(console) # "" /\ ImageFolder(image_type) # ""

Finished(r, rq, game_mapping, h, out) ==
  /\ req' = [req EXCEPT ![r] =
               [rq EXCEPT !.pc = IF out.raised THEN "raised" ELSE "done",
                          !.ret = game_mapping,
                          !.out = out]]
  /\ heap' = [h EXCEPT ![DictObj(r)] = out.game_mapping]

\* The rest of process_game_list once get_games_from_libretro has returned
\* the dict at DictObj(r): the matching, in place on that dict.
Finish(r, rq, game_mapping, h) ==
  Finished(r, rq, game_mapping, h, Matching(rq.games, rq.base_url, game_mapping))

\* Unknown console or image type: return {}, {} before any fetch.
CallUnknown(r, console, image_type, body) ==
  /\ Free(r)
  /\ calls < MaxCalls
  /\ calls' = calls + 1
  /\ ~Known(console, image_type)
  /\ req' = [req EXCEPT ![r] =
               [IdleReq EXCEPT !.pc = "done", !.body = body,
                               !.games = FilterGames(body)]]
  /\ UNCHANGED <<now, store, heap, raw, once, twice, scrubPc>>

\* The call of get_games_from_libretro misses the cache (no entry, or an
\* expired one, which is deleted): the function is handed to the thread pool.
CallMiss(r, console, image_type, body) ==
  LET u == BaseUrl(console, image_type)
  IN /\ Free(r)
     /\ calls < MaxCalls
     /\ calls' = calls + 1
     /\ Known(console, image_type)
     /\ ~store[u].present \/ Expired(store[u], now)
     /\ store' = [store EXCEPT ![u] = NoEntry]
     /\ req' = [req EXCEPT ![r] =
                  [IdleReq EXCEPT !.pc = "fetching", !.body = body,
                                  !.games = FilterGames(body), !.base_url = u,
                                  !.called_at = now, !.saw = store[u]]]
     /\ UNCHANGED <<now, heap, raw, once, twice, scrubPc>>

\* The call hits the cache: the entry is decoded into a new dict and the
\* matching runs on it, with no suspension in between.
CallHit(r, console, image_type, body) ==
  LET u == BaseUrl(console, image_type)
      rq == [IdleReq EXCEPT !.body = body, !.games = FilterGames(body),
                            !.base_url = u, !.hit = TRUE,
                            !.called_at = now, !.saw = store[u]]
  IN /\ Free(r)
     /\ calls < MaxCalls
     /\ calls' = calls + 1
     /\ Known(console, image_type)
     /\ store[u].present /\ ~Expired(store[u], now)
     /\ Finish(r, rq, JsonLoads(heap[store[u].obj]), heap)
     /\ UNCHANGED <<now, store, raw, once, twice, scrubPc>>

\* The fetch in the thread (requests.get and the parse of its response
\* into a new dict), then the coroutine resumed: the result is encoded and
\* stored under the key for Expire seconds, and returned to
\* process_game_list, which matches.  Nothing else reads the dict between
\* the end of the thread and the resumption.
Fetch(r, response) ==
  LET u == req[r].base_url
      result == FetchMapping(response)
      h == [heap EXCEPT ![BytesObj(u)] = JsonDumps(result)]
  IN /\ req[r].pc = "fetching"
     /\ store' = [store EXCEPT ![u] =
           [present |-> TRUE, obj |-> StoredObject(DictObj(r), BytesObj(u)),
            ttl_ts |-> now + Expire, fetched |-> result,
            called_at |-> req[r].called_at]]
     /\ Finish(r, [req[r] EXCEPT !.fetched = TRUE], result, h)
     /\ UNCHANGED <<now, calls, raw, once, twice, scrubPc>>

Ticks(t) == (t \div (24 * 60 * 60)) + (t % (24 * 60 * 60))

OneDay == 24 * 60 * 60

\* Time passes: a second, or a day.
Tick(d) ==
  /\ Ticks(now) < MaxTicks
  /\ now' = now + d
  /\ UNCHANGED <<store, heap, req, calls, raw, once, twice, scrubPc>>

\* ------------------------------------------------------------------ pools
PageTwo ==
  [status_code |-> 200,
   links |-> << [text |-> <<".",".","/">>, href |-> <<".",".","/">>],
                [text |-> <<"M","a","r","i","o",".","p","n","g">>, href |-> <<"M","a","r","i","o",".","p","n","g">>],
                [text |-> <<"M","a","r","i","o"," ","2",".","p","n","g">>, href |-> <<"M","a","r","i","o"," ","2",".","p","n","g">>],
                [text |-> <<"Z","e","l","d","a"," ","(","U","S","A",")",".","p","n","g">>, href |-> <<"Z","e","l","d","a"," ","(","U","S","A",")",".","p","n","g">>] >>]
PageOne ==
  [status_code |-> 200,
   links |-> << [text |-> <<"M","a","r","i","o"," ","(","U","S","A",")",".","p","n","g">>, href |-> <<"M","a","r","i","o"," ","(","U","S","A",")",".","p","n","g">>] >>]
PageTypo ==
  [status_code |-> 200,
   links |-> << [text |-> <<"Z","e","l","d","a"," ","I","I",".","p","n","g">>, href |-> <<"Z","e","l","d","a"," ","I","I",".","p","n","g">>],
                [text |-> <<"S","u","p","e","r"," ","M","a","r","i","a",".","p","n","g">>, href |-> <<"S","u","p","e","r"," ","M","a","r","i","a",".","p","n","g">>] >>]
PageSameHref ==
  [status_code |-> 200,
   links |-> << [text |-> <<"M","a","r","i","o",".","p","n","g">>, href |-> <<"m",".","p","n","g">>],
                [text |-> <<"Z","e","l","d","a",".","p","n","g">>, href |-> <<"m",".","p","n","g">>] >>]
PageNoPng ==
  [status_code |-> 200,
   links |-> << [text |-> <<".",".","/">>, href |-> <<".",".","/">>] >>]
PageError ==
  [status_code |-> 500, links |-> <<>>]

BodyPair == <<"M","a","r","i","o",".","z","i","p","\n","Z","e","l","d","a",".","z","i","p">>
BodyDup == <<"M","a","r","i","o",".","z","i","p","\n","M","a","r","i","o",".","z","i","p">>
BodyNoise == <<" ","S","u","p","e","r"," ","M","a","r","i","o"," ","(","U","S","A",")",".","z","i","p"," ","\n","\n",".","h","i","d","d","e","n","\n","n","e","o","g","e","o",".","z","i","p","\n","M","a","r","i","o",".","z","i","p">>
BodyOdd == <<"Z","e","l","d","a",".","z","i","p","\n","P","o","n","g",".","z","i","p","\n","M","a","r","i","o"," ","(","E","U",")",".","z","i","p","\n">>
BodyEmpty == <<>>

\* Specification Spec: concurrent requests for one base URL, with the clock.
SpecConsoles == {"SFC"}
SpecImageTypes == {"boxart"}
SpecBodies == {BodyPair}
SpecPages == {PageTwo, PageNoPng, PageError}

\* Specification SpecMatch: one request at a time, every kind of input.
AllConsoles == {"SFC", "SUPA", "GW", "NOPE"}
AllImageTypes == {"boxart", "bogus"}
AllBodies == {BodyPair, BodyDup, BodyNoise, BodyOdd, BodyEmpty}
AllPages == {PageTwo, PageOne, PageTypo, PageSameHref, PageNoPng, PageError}

\* --------------------------------------------------------- specifications
InitMain ==
  /\ now = 0
  /\ store = [u \in SeqToSet(UrlList) |-> NoEntry]
  /\ heap = [o \in ObjIds |-> <<>>]
  /\ req = [r \in Reqs |-> IdleReq]
  /\ calls = 0

ScrubIdle == raw = <<>> /\ once = <<>> /\ twice = <<>> /\ scrubPc = "twice"

Init == InitMain /\ ScrubIdle

Next ==
  \/ \E r \in Reqs, c \in SpecConsoles, t \in SpecImageTypes, b \in SpecBodies :
        CallMiss(r, c, t, b)
  \/ \E r \in Reqs, c \in SpecConsoles, t \in SpecImageTypes, b \in SpecBodies :
        CallHit(r, c, t, b)
  \/ \E r \in Reqs, p \in SpecPages : Fetch(r, p)
  \/ \E d \in {1, OneDay} : Tick(d)

Spec == Init /\ [][Next]_vars

NextMatch ==
  \/ \E c \in AllConsoles, t \in AllImageTypes, b \in AllBodies :
        CallUnknown(1, c, t, b)
  \/ \E c \in AllConsoles, t \in AllImageTypes, b \in AllBodies :
        CallMiss(1, c, t, b)
  \/ \E c \in AllConsoles, t \in AllImageTypes, b \in AllBodies :
        CallHit(1, c, t, b)
  \/ \E p \in AllPages : Fetch(1, p)

SpecMatch == Init /\ [][NextMatch]_vars

\* -------------------------------------------- inputs of scrub_game_name
ScrubAlphabet == {"a", ".", "(", ")", "[", "]", " "}

ScrubPool ==
  { <<"G","a","m","e"," ","(","U","S","A",")",".","z","i","p">>,
    <<"M","e","g","a","m","a","n"," ","[","!","]",".","n","e","s">>,
    <<"G","a","m","e",".","t","a","r",".","g","z">>,
    <<"G","a","m","e"," ","v","1",".","0"," ","(","U","S","A",")">>,
    <<"M","e","g","a","(","x",")","m","a","n">>,
    <<"A"," ","(","(","b",")",")"," ","[","c","]","[","d","]">> }

ScrubInputs ==
  ScrubPool \cup UNION {[1..n -> ScrubAlphabet] : n \in 0..MaxLen}

\* ------------------------------------------------ specification: scrub
InitScrub ==
  /\ InitMain
  /\ raw \in ScrubInputs
  /\ once = <<>>
  /\ twice = <<>>
  /\ scrubPc = "raw"

ScrubOnce ==
  /\ scrubPc = "raw"
  /\ once' = scrub_game_name(raw)
  /\ scrubPc' = "once"
  /\ UNCHANGED <<raw, twice, now, store, heap, req, calls>>

ScrubTwice ==
  /\ scrubPc = "once"
  /\ twice' = scrub_game_name(once)
  /\ scrubPc' = "twice"
  /\ UNCHANGED <<raw, once, now, store, heap, req, calls>>

NextScrub == ScrubOnce \/ ScrubTwice

SpecScrub == InitScrub /\ [][NextScrub]_vars

\* A dotted suffix at the end of s: what step 1 of the scrub removes.
EndsWithDottedSuffix(s) ==
  \E i \in 1..Len(s) :
    /\ s[i] = "."
    /\ i < Len(s)
    /\ \A k \in (i + 1)..Len(s) : s[k] \in WordChars

\* C9 (as stated): scrub_game_name(scrub_game_name(x)) = scrub_game_name(x)
\* for every input x.
C9_Idempotent == scrubPc = "twice" => twice = once

\* C9 (amended): scrubbing twice equals scrubbing once whenever the scrubbed
\* name does not itself end in a dotted suffix.
C9_IdempotentNoSuffix ==
  (scrubPc = "twice" /\ ~EndsWithDottedSuffix(once)) => twice = once

C9_Witness ==
  /\ scrubPc = "twice"
  /\ raw = <<"M","e","g","a","m","a","n"," ","[","!","]",".","n","e","s">>
  /\ once = <<"M","e","g","a"," ","M","a","n">>
  /\ twice = once

\* ------------------------------------------------ properties of the cache
Urls == SeqToSet(UrlList)

\* The requests that went through get_games_from_libretro.
Looked(r) == req[r].pc # "idle" /\ req[r].base_url # <<>>

Ended(r) == req[r].pc \in {"done", "raised"} /\ req[r].base_url # <<>>

\* C1: the cached index is never corrupted by a request's deletions: what
\* the cache holds under a key decodes, at all times, to the mapping as it
\* was fetched, and every request served from the cache receives the
\* mapping as fetched, whatever keys earlier requests deleted from theirs.
C1_CachedIndexIntact ==
  /\ \A u \in Urls :
        store[u].present => JsonLoads(heap[store[u].obj]) = store[u].fetched
  /\ \A r \in Reqs :
        Looked(r) /\ req[r].hit => req[r].ret = req[r].saw.fetched

\* A request that filled the cache has deleted a key from its own dict, and
\* a later request, served from the cache, still received that key.
C1_Witness ==
  \E r1, r2 \in Reqs :
    /\ req[r1].pc = "done" /\ req[r1].fetched
    /\ req[r1].out.consumed # <<>>
    /\ Len(heap[DictObj(r1)]) < Len(req[r1].ret)
    /\ req[r2].pc = "done" /\ req[r2].hit
    /\ req[r2].saw.called_at = req[r1].called_at
    /\ req[r2].ret = req[r1].ret
    /\ HasKey(req[r2].ret, req[r1].out.consumed[1].key)

\* C2: concurrent misses of one key are deduplicated: while one fetch of a
\* base URL is in flight, no second fetch of that URL is started.
C2_SingleFetchPerKey ==
  \A r1, r2 \in Reqs :
    /\ r1 # r2
    /\ req[r1].pc = "fetching"
    /\ req[r2].pc = "fetching"
    => req[r1].base_url # req[r2].base_url

\* C3: a call made less than 24 hours after the call that filled the entry
\* it finds is served from the cache, with the mapping that call fetched
\* and no network request of its own; a call made after the entry's expiry
\* is not served from the cache and fetches anew.
C3_TtlHonoured ==
  \A r \in Reqs :
    Looked(r) /\ req[r].saw.present =>
      /\ req[r].called_at - req[r].saw.called_at < OneDay =>
            /\ req[r].hit /\ ~req[r].fetched
            /\ Ended(r) => req[r].ret = req[r].saw.fetched
      /\ req[r].called_at > req[r].saw.ttl_ts =>
            /\ ~req[r].hit
            /\ Ended(r) => req[r].fetched

\* One request was served from an entry less than a day after the call
\* that filled it, another found the entry expired and has fetched anew.
C3_Witness ==
  \E r1, r2 \in Reqs :
    /\ Ended(r1) /\ req[r1].hit /\ req[r1].saw.present
    /\ req[r1].called_at > req[r1].saw.called_at
    /\ req[r1].called_at - req[r1].saw.called_at < OneDay
    /\ Ended(r2) /\ req[r2].fetched /\ req[r2].saw.present
    /\ req[r2].called_at > req[r2].saw.ttl_ts

\* C4: a fetch that fails or yields no .png link leaves no cache entry: no
\* entry holds an empty mapping and no request is served an empty mapping
\* from the cache.
C4_EmptyNotCached ==
  /\ \A u \in Urls : store[u].present => store[u].fetched # <<>>
  /\ \A r \in Reqs : Looked(r) /\ req[r].hit => req[r].ret # <<>>

\* --------------------------------------------- properties of the matching
\* C5: the matching never raises: no request ends by an uncaught exception
\* (a name left over when the exact pass has consumed every key is left
\* unmatched).
C5_NeverRaises == \A r \in Reqs : req[r].pc # "raised"

Injective(game_mapping) ==
  \A i, j \in 1..Len(game_mapping) :
    game_mapping[i][2] = game_mapping[j][2] => i = j

DistinctKeys(consumed) ==
  \A i, j \in 1..Len(consumed) : i # j => consumed[i].key # consumed[j].key

DistinctFiles(consumed) ==
  \A i, j \in 1..Len(consumed) : i # j => consumed[i].file # consumed[j].file

\* What the exact pass consumed is what the index held: under the scrubbed
\* name, the file assigned, and the key is gone afterwards.
ConsumedFromIndex(consumed, index, left) ==
  \A i \in 1..Len(consumed) :
    /\ consumed[i].key = scrub_game_name(consumed[i].game)
    /\ HasKey(index, consumed[i].key)
    /\ DictGet(index, consumed[i].key) = consumed[i].file
    /\ ~HasKey(left, consumed[i].key)

\* C6 as stated: for any index, the raw filenames the exact pass assigns
\* have no duplicates and no index key is consumed by two names.
C6_NoDuplicateAssignment ==
  \A r \in Reqs :
    DistinctKeys(req[r].out.consumed) /\ DistinctFiles(req[r].out.consumed)

\* C6, amended: no index key is consumed by more than one requested name,
\* each consumed key leaves the mapping, and the raw filenames assigned have
\* no duplicates when distinct keys of the index hold distinct filenames.
C6_KeysConsumedOnce ==
  \A r \in Reqs :
    /\ DistinctKeys(req[r].out.consumed)
    /\ ConsumedFromIndex(req[r].out.consumed, req[r].ret, req[r].out.game_mapping)
    /\ Injective(req[r].ret) => DistinctFiles(req[r].out.consumed)

\* The exact pass matched two names against an index of distinct files.
C6_Witness ==
  \E r \in Reqs :
    /\ req[r].pc = "done"
    /\ Len(req[r].out.consumed) >= 2
    /\ Injective(req[r].ret)
    /\ Len(req[r].out.game_mapping) = Len(req[r].ret) - Len(req[r].out.consumed)

\* Scorer f gives some candidate at least the minimum score.
Passing(f, query, names) ==
  \E i \in 1..Len(names) :
    RoundScore(FuzzScore(f, query, names[i])) >= MIN_MATCH_SCORE

\* c is a candidate no other candidate outscores under scorer f.
IsBest(f, query, names, c) ==
  \E i \in 1..Len(names) :
    /\ names[i] = c
    /\ \A j \in 1..Len(names) :
          ~FracLess(FuzzScore(f, query, names[i]), FuzzScore(f, query, names[j]))

PassingScorers(query, names) ==
  {f \in 1..Len(fuzzers) : Passing(f, query, names)}

FirstOf(S) == CHOOSE f \in S : \A g \in S : f <= g

\* One name of the fuzzy pass: the scorers were run in their order up to
\* the first passing one (k), whose best candidate was recorded.
RecordedBy(e, k, query, names, out, base_url) ==
  /\ e.tried = [i \in 1..k |-> i]
  /\ e.recorded
  /\ IsBest(k, query, names, e.choice)
  /\ HasKey(out.matches, e.game)
  /\ DictGet(out.matches, e.game) =
       ImageUrl(base_url, DictGet(out.game_mapping, e.choice))

NotRecorded(e, out) ==
  /\ e.tried = [i \in 1..Len(fuzzers) |-> i]
  /\ ~e.recorded
  /\ HasKey(out.matches, e.game) => HasKey(out.exact_result, e.game)

EntryInOrder(e, passing, query, names, out, base_url) ==
  IF passing = {} THEN NotRecorded(e, out)
  ELSE RecordedBy(e, FirstOf(passing), query, names, out, base_url)

LogInOrder(out, names, base_url) ==
  /\ Len(out.log) = Len(out.residual)
  /\ \A i \in 1..Len(out.log) :
        /\ out.log[i].game = out.residual[i]
        /\ EntryInOrder(out.log[i],
             PassingScorers(scrub_game_name(out.log[i].game), names),
             scrub_game_name(out.log[i].game), names, out, base_url)

\* C7: for each name of the fuzzy pass the scorers are consulted in the
\* order ratio, token_sort_ratio, token_set_ratio, partial_ratio,
\* partial_token_sort_ratio; the first whose best candidate scores at least
\* 90 decides, with that best candidate, and none after it is consulted; a
\* name below 90 under all five gets no entry from the fuzzy pass.
C7_ScorerOrder ==
  \A r \in Reqs :
    req[r].pc = "done" /\ req[r].base_url # <<>> =>
      LogInOrder(req[r].out, Keys(req[r].out.game_mapping), req[r].base_url)

\* A returned request in which one name was decided by a scorer after the
\* first and before the last, and another name failed all five.
C7_Witness ==
  \E r \in Reqs :
    /\ req[r].pc = "done"
    /\ \E i, j \in 1..Len(req[r].out.log) :
          /\ req[r].out.log[i].recorded
          /\ Len(req[r].out.log[i].tried) \in 2..(Len(fuzzers) - 1)
          /\ HasKey(req[r].out.matches, req[r].out.log[i].game)
          /\ ~req[r].out.log[j].recorded
          /\ Len(req[r].out.log[j].tried) = Len(fuzzers)
          /\ ~HasKey(req[r].out.matches, req[r].out.log[j].game)

\* The request's lines, trimmed, without the empty ones, the ones that
\* start with a dot and neogeo.zip, in the order of the request.
KeptLine(line) ==
  /\ Strip(line) # <<>>
  /\ Strip(line)[1] # "."
  /\ Strip(line) # NeoGeoZip

FilteredList(lines, list) ==
  \E pos \in [1..Len(list) -> 1..Len(lines)] :
    /\ \A i, j \in 1..Len(list) : i < j => pos[i] < pos[j]
    /\ \A i \in 1..Len(list) : list[i] = Strip(lines[pos[i]])
    /\ \A k \in 1..Len(lines) :
          KeptLine(lines[k]) <=> \E i \in 1..Len(list) : pos[i] = k

\* C8 as stated: for a known console and image type the returned
\* all_considered_names is the filtered request list, whatever the fetch
\* gave (an empty index included) and whatever the matching did.
C8_AllNamesAlways ==
  \A r \in Reqs :
    req[r].pc = "done" /\ req[r].base_url # <<>> =>
      FilteredList(SplitLines(req[r].body), req[r].out.all_games)

\* C8, amended: for a known console and image type the returned
\* all_considered_names is the filtered request list when the fetched index
\* is not empty, and the empty list when it is.
C8_AllNamesUnlessEmptyIndex ==
  \A r \in Reqs :
    req[r].pc = "done" /\ req[r].base_url # <<>> =>
      IF req[r].ret = <<>> THEN req[r].out.all_games = <<>>
      ELSE FilteredList(SplitLines(req[r].body), req[r].out.all_games)

\* A returned request whose lines were filtered, one name matched exactly
\* and removed from the working list, one left to the fuzzy pass.
C8_Witness ==
  \E r \in Reqs :
    /\ req[r].pc = "done" /\ req[r].ret # <<>>
    /\ Len(SplitLines(req[r].body)) > Len(req[r].out.all_games)
    /\ req[r].out.exact_matches # <<>>
    /\ req[r].out.residual # <<>>
    /\ Len(req[r].out.residual) < Len(req[r].out.all_games)

\* C10: a name matched in the exact pass takes no part in the fuzzy pass
\* and keeps the entry the exact pass gave it, duplicates in the request
\* included.
C10_ExactEntryKept ==
  \A r \in Reqs :
    \A i \in 1..Len(req[r].out.exact_matches) :
      /\ \A j \in 1..Len(req[r].out.residual) :
            req[r].out.residual[j] # req[r].out.exact_matches[i]
      /\ req[r].pc = "done" =>
            DictGet(req[r].out.matches, req[r].out.exact_matches[i]) =
              DictGet(req[r].out.exact_result, req[r].out.exact_matches[i])

====
